---------------------------- MODULE Spec2Model ----------------------------
(***************************************************************************)
(* Naemon Event Radio Dispatcher (src/naemon/nerd.c): the channel          *)
(* registry, the per-channel subscriber lists, the activation of host      *)
(* callbacks, the broadcast engine and the query handler.                  *)
(*                                                                         *)
(* C strings are sequences of tokens: a word without blank or colon, the   *)
(* blank " " or the colon ":".  A C array index i is the sequence index    *)
(* i + 1.  A NULL pointer to a channel is the index -1, a NULL string is   *)
(* the sequence NULLSTR.                                                   *)
(***************************************************************************)
EXTENDS Integers, Sequences, FiniteSets, TLC

VARIABLES
    channels,               \* static struct nerd_channel **channels
    num_channels,           \* static unsigned int num_channels
    chan_host_checks_id,    \* static unsigned int chan_host_checks_id
    chan_service_checks_id, \* static unsigned int chan_service_checks_id
    neb_callbacks,          \* the event broker's registered (kind, handler) pairs
    phase,                  \* "start" (statics zeroed), "running", "down"
    neb_refused,            \* the callback kinds the broker refuses to register
    nextSerial,             \* history: the number the next subscription gets
    last                    \* history: the last operation and the calls it issued

vars == <<channels, num_channels, chan_host_checks_id, chan_service_checks_id,
          neb_callbacks, phase, neb_refused, nextSerial, last>>

----------------------------------------------------------------------------
(* Bounds and input sets *)

\* subscriptions are numbered 1..MaxSerial in the order they are made
MaxSerial == 3

\* socket descriptors of the connected clients
Connections == {4, 5}

\* a socket descriptor that is none of the clients'
NoSd == 0 - 1

NULLSTR == <<"(null)">>

\* bit positions of the callback mask, lowest bit first
CallbackOrder == <<"SERVICE_CHECK_DATA", "HOST_CHECK_DATA", "COMMENT_DATA">>

CallbackKinds == {CallbackOrder[i] : i \in 1..Len(CallbackOrder)}

\* nerd_init's two channels
HostChecksDef ==
    [name |-> <<"hostchecks">>, description |-> "Host check results",
     handler |-> "chan_host_checks", callbacks |-> {"HOST_CHECK_DATA"}]

ServiceChecksDef ==
    [name |-> <<"servicechecks">>, description |-> "Service check results",
     handler |-> "chan_service_checks", callbacks |-> {"SERVICE_CHECK_DATA"}]

\* channels a module may add through nerd_mkchan
ModuleDefs ==
    {[name |-> <<"custom">>, description |-> "Custom events",
      handler |-> "chan_custom",
      callbacks |-> {"HOST_CHECK_DATA", "COMMENT_DATA"}]}

Handlers == {"chan_host_checks", "chan_service_checks", "chan_custom"}

SendResults == {"ok", "EAGAIN", "EPIPE"}

----------------------------------------------------------------------------
(* The event broker (neb_register_callback, neb_deregister_callback) *)

\* the broker keeps one entry per successful registration
neb_register_callback(cbs, kind, handler, refused) ==
    IF kind \in refused
    THEN [cbs |-> cbs, result |-> 0 - 1]
    ELSE [cbs |-> [cbs EXCEPT ![<<kind, handler>>] = @ + 1], result |-> 0]

\* removes one entry of (kind, handler), if there is one
neb_deregister_callback(cbs, kind, handler) ==
    IF cbs[<<kind, handler>>] > 0
    THEN [cbs EXCEPT ![<<kind, handler>>] = @ - 1]
    ELSE cbs

\* one call of the dispatcher to the broker, on behalf of channel chan
RegisterCall(chan, kind, handler, result) ==
    [call |-> "register", chan |-> chan, kind |-> kind, handler |-> handler,
     result |-> result]

DeregisterCall(chan, kind, handler) ==
    [call |-> "deregister", chan |-> chan, kind |-> kind, handler |-> handler,
     result |-> 0]

----------------------------------------------------------------------------
(* Channel registry *)

\* the world an operation runs in and what it issues on the way
World ==
    [channels |-> channels, num_channels |-> num_channels,
     cbs |-> neb_callbacks, calls |-> <<>>, closes |-> <<>>, writes |-> <<>>,
     out |-> <<>>, log |-> <<>>]

RECURSIVE find_channel_from(_, _, _, _)
find_channel_from(chs, n, name, i) ==
    IF i >= n THEN 0 - 1
    ELSE IF chs[i + 1].name = name THEN i
    ELSE find_channel_from(chs, n, name, i + 1)

\* a lookup that falls back to the first channel
find_channel_defaulting(chs, n, name) ==
    IF find_channel_from(chs, n, name, 0) = 0 - 1 /\ n > 0
    THEN 0
    ELSE find_channel_from(chs, n, name, 0)

\* index of the first channel of that name, -1 for NULL
find_channel(chs, n, name) == find_channel_from(chs, n, name, 0)

nerd_get_channel_id(chs, n, name) ==
    LET chan == find_channel(chs, n, name)
    IN  IF chan = 0 - 1 THEN 0 - 1 ELSE chs[chan + 1].id

\* a lookup that takes an id past the end for the last channel
nerd_get_channel_clamping(n, chan_id) ==
    IF chan_id >= n THEN n - 1 ELSE chan_id

\* index of the channel, -1 for NULL
nerd_get_channel(n, chan_id) ==
    IF chan_id >= n THEN 0 - 1 ELSE chan_id

\* the set bits of the mask, lowest first
MaskCallbacks(mask) == SelectSeq(CallbackOrder, LAMBDA k : k \in mask)

\* the channel nm_calloc and the assignments of nerd_mkchan make:
\* id is left as calloc zeroed it
NewChannel(def) ==
    [name |-> def.name, description |-> def.description, id |-> 0,
     callbacks |-> MaskCallbacks(def.callbacks), handler |-> def.handler,
     subscriptions |-> <<>>]

nerd_mkchan(chs, n, def) ==
    [channels |-> Append(chs, NewChannel(def)),
     num_channels |-> n + 1,
     retval |-> (n + 1) - 1]

----------------------------------------------------------------------------
(* Activation: registering and deregistering a channel's callbacks *)

RECURSIVE register_from(_, _, _, _)
register_from(w, ci, i, refused) ==
    LET chan == w.channels[ci + 1]
    IN  IF i >= Len(chan.callbacks) THEN [w |-> w, result |-> 0]
        ELSE LET r  == neb_register_callback(w.cbs, chan.callbacks[i + 1],
                                             chan.handler, refused)
                 w2 == [w EXCEPT !.cbs = r.cbs,
                                 !.calls = Append(@, RegisterCall(ci, chan.callbacks[i + 1],
                                                                  chan.handler, r.result))]
             IN  IF r.result # 0
                 THEN [w |-> w2, result |-> 0 - 1]
                 ELSE register_from(w2, ci, i + 1, refused)

\* refused: the callback kinds the broker refuses to register at this call
nerd_register_channel_callbacks(w, ci, refused) ==
    register_from(w, ci, 0, refused)

RECURSIVE deregister_from(_, _, _)
deregister_from(w, ci, i) ==
    LET chan == w.channels[ci + 1]
    IN  IF i >= Len(chan.callbacks) THEN w
        ELSE deregister_from(
                 [w EXCEPT !.cbs = neb_deregister_callback(@, chan.callbacks[i + 1],
                                                           chan.handler),
                           !.calls = Append(@, DeregisterCall(ci, chan.callbacks[i + 1],
                                                              chan.handler))],
                 ci, i + 1)

nerd_deregister_channel_callbacks(w, ci) ==
    deregister_from(w, ci, 0)

----------------------------------------------------------------------------
(* Subscription lists *)

\* one iobroker_close(nagios_iobs, sd), and the function that calls it
CloseCall(sd, via) == [sd |-> sd, via |-> via]

\* fmt ? nm_strdup(fmt) : NULL
Subscription(sd, fmt, serial) ==
    [sd |-> sd, format |-> fmt, serial |-> serial]

\* a subscribe that registers the callbacks for every subscriber
subscribe_always_registers(w, sd, ci, fmt, serial, refused) ==
    LET subscr == Subscription(sd, fmt, serial)
        w1 == nerd_register_channel_callbacks(w, ci, refused).w
    IN  [w1 EXCEPT !.channels[ci + 1].subscriptions = <<subscr>> \o @]

\* a subscribe that appends to the list
subscribe_appends(w, sd, ci, fmt, serial, refused) ==
    LET subscr == Subscription(sd, fmt, serial)
        w1 == IF w.channels[ci + 1].subscriptions = <<>>
              THEN nerd_register_channel_callbacks(w, ci, refused).w
              ELSE w
    IN  [w1 EXCEPT !.channels[ci + 1].subscriptions = Append(@, subscr)]

subscribe(w, sd, ci, fmt, serial, refused) ==
    LET subscr == Subscription(sd, fmt, serial)
        w1 == IF w.channels[ci + 1].subscriptions = <<>>
              THEN nerd_register_channel_callbacks(w, ci, refused).w
              ELSE w
    IN  [w1 EXCEPT !.channels[ci + 1].subscriptions = <<subscr>> \o @]

\* the loop of cancel_channel_subscription: kept is the list up to prev,
\* a match is spliced out, any other node becomes prev
RECURSIVE cancel_walk(_, _, _)
cancel_walk(kept, list, sd) ==
    IF list = <<>> THEN kept
    ELSE IF Head(list).sd = sd
         THEN cancel_walk(kept, Tail(list), sd)
         ELSE cancel_walk(Append(kept, Head(list)), Tail(list), sd)

\* a walk that stops at the first match
RECURSIVE cancel_walk_first(_, _, _)
cancel_walk_first(kept, list, sd) ==
    IF list = <<>> THEN kept
    ELSE IF Head(list).sd = sd
         THEN kept \o Tail(list)
         ELSE cancel_walk_first(Append(kept, Head(list)), Tail(list), sd)

\* a cancel that removes only the first subscription of the connection
cancel_channel_subscription_first_only(w, ci, sd) ==
    IF ci = 0 - 1 THEN w
    ELSE [w EXCEPT !.channels[ci + 1].subscriptions = cancel_walk_first(<<>>, @, sd)]

\* nm_log: "Cancelled %d subscription%s to channel '%s' for %d"
CancelLog(ci, cancelled, sd) == [chan |-> ci, cancelled |-> cancelled, sd |-> sd]

cancel_channel_subscription(w, ci, sd) ==
    IF ci = 0 - 1 THEN w
    ELSE LET list == w.channels[ci + 1].subscriptions
             kept == cancel_walk(<<>>, list, sd)
             cancelled == Len(list) - Len(kept)
             w1 == [w EXCEPT !.channels[ci + 1].subscriptions = kept,
                             !.log = IF cancelled # 0
                                     THEN Append(@, CancelLog(ci, cancelled, sd))
                                     ELSE @]
         IN  IF kept = <<>>
             THEN nerd_deregister_channel_callbacks(w1, ci)
             ELSE w1

\* an unsubscribe loop that stops at the first match
RECURSIVE unsubscribe_walk_first(_, _, _)
unsubscribe_walk_first(kept, list, sd) ==
    IF list = <<>> THEN kept
    ELSE IF Head(list).sd = sd
         THEN kept \o Tail(list)
         ELSE unsubscribe_walk_first(Append(kept, Head(list)), Tail(list), sd)

\* the loop of unsubscribe
RECURSIVE unsubscribe_walk(_, _, _)
unsubscribe_walk(kept, list, sd) ==
    IF list = <<>> THEN kept
    ELSE IF Head(list).sd = sd
         THEN unsubscribe_walk(kept, Tail(list), sd)
         ELSE unsubscribe_walk(Append(kept, Head(list)), Tail(list), sd)

\* an unsubscribe that also closes the socket
unsubscribe_closing(w, sd, ci) ==
    LET w1 == [w EXCEPT !.channels[ci + 1].subscriptions = unsubscribe_walk(<<>>, @, sd),
                        !.closes = Append(@, CloseCall(sd, "unsubscribe"))]
    IN  IF w1.channels[ci + 1].subscriptions = <<>>
        THEN nerd_deregister_channel_callbacks(w1, ci)
        ELSE w1

\* an unsubscribe that forgets to deregister the callbacks
unsubscribe_keeps_callbacks(w, sd, ci) ==
    [w EXCEPT !.channels[ci + 1].subscriptions = unsubscribe_walk(<<>>, @, sd)]

\* an unsubscribe that drops the connection from every channel
RECURSIVE unsubscribe_from_all(_, _, _)
unsubscribe_from_all(w, sd, i) ==
    IF i >= w.num_channels THEN w
    ELSE unsubscribe_from_all(cancel_channel_subscription(w, i, sd), sd, i + 1)

unsubscribe_everywhere(w, sd, ci) == unsubscribe_from_all(w, sd, 0)

unsubscribe(w, sd, ci) ==
    LET w1 == [w EXCEPT !.channels[ci + 1].subscriptions = unsubscribe_walk(<<>>, @, sd)]
    IN  IF w1.channels[ci + 1].subscriptions = <<>>
        THEN nerd_deregister_channel_callbacks(w1, ci)
        ELSE w1

RECURSIVE cancel_from(_, _, _)
cancel_from(w, sd, i) ==
    IF i >= w.num_channels THEN w
    ELSE cancel_from(cancel_channel_subscription(w, i, sd), sd, i + 1)

\* a cancel whose loop starts at the second channel
nerd_cancel_subscriber_skipping_first(w, sd) ==
    LET w1 == cancel_from(w, sd, 1)
    IN  [w1 EXCEPT !.closes = Append(@, CloseCall(sd, "nerd_cancel_subscriber"))]

\* a cancel that closes the socket and leaves the lists alone
nerd_cancel_subscriber_close_only(w, sd) ==
    [w EXCEPT !.closes = Append(@, CloseCall(sd, "nerd_cancel_subscriber"))]

\* removes a subscriber entirely and closes its socket
nerd_cancel_subscriber(w, sd) ==
    LET w1 == cancel_from(w, sd, 0)
    IN  [w1 EXCEPT !.closes = Append(@, CloseCall(sd, "nerd_cancel_subscriber"))]

----------------------------------------------------------------------------
(* Broadcast *)

WriteCall(subscr, result) ==
    [sd |-> subscr.sd, serial |-> subscr.serial, result |-> result]

\* results[pos]: what send() does at the pos-th node of the list
RECURSIVE broadcast_from(_, _, _, _)
broadcast_from(w, list, pos, results) ==
    IF list = <<>> THEN [w |-> w, retval |-> 0]
    ELSE LET subscr == Head(list)
             w1 == [w EXCEPT !.writes = Append(@, WriteCall(subscr, results[pos]))]
         IN  IF results[pos] # "ok"
             THEN IF results[pos] = "EAGAIN"
                  THEN [w |-> w1, retval |-> 0]
                  ELSE [w |-> nerd_cancel_subscriber(w1, subscr.sd), retval |-> 500]
             ELSE broadcast_from(w1, Tail(list), pos + 1, results)

\* a broadcast that goes on to the next subscriber after EAGAIN
RECURSIVE broadcast_skipping_from(_, _, _, _)
broadcast_skipping_from(w, list, pos, results) ==
    IF list = <<>> THEN [w |-> w, retval |-> 0]
    ELSE LET subscr == Head(list)
             w1 == [w EXCEPT !.writes = Append(@, WriteCall(subscr, results[pos]))]
         IN  IF results[pos] # "ok" /\ results[pos] # "EAGAIN"
             THEN [w |-> nerd_cancel_subscriber(w1, subscr.sd), retval |-> 500]
             ELSE broadcast_skipping_from(w1, Tail(list), pos + 1, results)

nerd_broadcast_skipping_eagain(w, chan_id, results) ==
    LET chan == nerd_get_channel(w.num_channels, chan_id)
    IN  IF chan = 0 - 1 THEN [w |-> w, retval |-> 0 - 1]
        ELSE broadcast_skipping_from(w, w.channels[chan + 1].subscriptions, 1, results)

\* a broadcast that writes to the newest subscriber only
nerd_broadcast_head_only(w, chan_id, results) ==
    LET chan == nerd_get_channel(w.num_channels, chan_id)
    IN  IF chan = 0 - 1 THEN [w |-> w, retval |-> 0 - 1]
        ELSE IF w.channels[chan + 1].subscriptions = <<>> THEN [w |-> w, retval |-> 0]
        ELSE broadcast_from(w, <<Head(w.channels[chan + 1].subscriptions)>>, 1, results)

nerd_broadcast(w, chan_id, results) ==
    LET chan == nerd_get_channel(w.num_channels, chan_id)
    IN  IF chan = 0 - 1 THEN [w |-> w, retval |-> 0 - 1]
        ELSE broadcast_from(w, w.channels[chan + 1].subscriptions, 1, results)

\* the send() results a broadcast on chan_id may meet: the loop asks no send()
\* after the first that fails, so at most one position fails
SendOutcomes(chan_id) ==
    IF chan_id >= num_channels THEN {<<>>}
    ELSE LET n == Len(channels[chan_id + 1].subscriptions)
         IN  {[i \in 1..n |-> IF i = k THEN r ELSE "ok"] :
                 k \in 0..n, r \in SendResults \ {"ok"}}

\* the two built-in producers; processed: ds->type is ..._PROCESSED
chan_host_checks(w, processed, results) ==
    IF ~processed THEN w
    ELSE IF w.channels[chan_host_checks_id + 1].subscriptions = <<>> THEN w
    ELSE nerd_broadcast(w, chan_host_checks_id, results).w

chan_service_checks(w, processed, results) ==
    IF ~processed THEN w
    ELSE nerd_broadcast(w, chan_service_checks_id, results).w

----------------------------------------------------------------------------
(* Teardown *)

RECURSIVE close_list(_, _)
close_list(w, list) ==
    IF list = <<>> THEN w
    ELSE close_list([w EXCEPT !.closes = Append(@, CloseCall(Head(list).sd, "nerd_deinit"))],
                    Tail(list))

RECURSIVE deinit_from(_, _)
deinit_from(w, i) ==
    IF i >= w.num_channels THEN w
    ELSE LET w1 == close_list(w, w.channels[i + 1].subscriptions)
         IN  deinit_from([w1 EXCEPT !.channels[i + 1].subscriptions = <<>>], i + 1)

\* a teardown whose loop starts at the second channel
nerd_deinit_skipping_first(w) ==
    [deinit_from(w, 1) EXCEPT !.channels = <<>>, !.num_channels = 0]

nerd_deinit(w) ==
    [deinit_from(w, 0) EXCEPT !.channels = <<>>, !.num_channels = 0]

----------------------------------------------------------------------------
(* Query handler *)

\* position of the first c in str, 0 when there is none
RECURSIVE strchr_from(_, _, _)
strchr_from(str, c, i) ==
    IF i > Len(str) THEN 0
    ELSE IF str[i] = c THEN i
    ELSE strchr_from(str, c, i + 1)

\* position of the last c in str, 0 when there is none
RECURSIVE strrchr_from(_, _, _)
strrchr_from(str, c, i) ==
    IF i < 1 THEN 0
    ELSE IF str[i] = c THEN i
    ELSE strrchr_from(str, c, i - 1)

\* a search that finds the last occurrence
strrchr(str, c) == strrchr_from(str, c, Len(str))

strchr(str, c) == strchr_from(str, c, 1)

UsageText == <<"usage", "NUL">>

\* a listing that leaves out the channels nobody subscribes to
RECURSIVE list_from_subscribed(_, _)
list_from_subscribed(w, i) ==
    IF i >= w.num_channels THEN w
    ELSE IF w.channels[i + 1].subscriptions = <<>> THEN list_from_subscribed(w, i + 1)
    ELSE list_from_subscribed(
             [w EXCEPT !.out = Append(@, <<w.channels[i + 1].name,
                                           w.channels[i + 1].description>>)],
             i + 1)

RECURSIVE list_from(_, _)
list_from(w, i) ==
    IF i >= w.num_channels THEN w
    ELSE list_from([w EXCEPT !.out = Append(@, <<w.channels[i + 1].name,
                                                 w.channels[i + 1].description>>)],
                   i + 1)

QhResult(w, retval, did, chan) ==
    [w |-> w, retval |-> retval, did |-> did, chan |-> chan]

\* the requests after help and list: verb, blank, channel[:format]
qh_command(w, sd, request, serial, refused) ==
    LET sp == strchr(request, " ")
    IN  IF sp = 0 THEN QhResult(w, 400, "malformed", 0 - 1)
        ELSE
        LET verb == SubSeq(request, 1, sp - 1)
            rest == SubSeq(request, sp + 1, Len(request))
            co   == strchr(rest, ":")
            chan_name == IF co = 0 THEN rest ELSE SubSeq(rest, 1, co - 1)
            fmt  == IF co = 0 THEN NULLSTR ELSE SubSeq(rest, co + 1, Len(rest))
            chan == find_channel(w.channels, w.num_channels, chan_name)
        IN  IF verb # <<"subscribe">> /\ verb # <<"unsubscribe">>
            THEN QhResult(w, 400, "malformed", 0 - 1)
            ELSE IF chan = 0 - 1 THEN QhResult(w, 400, "malformed", 0 - 1)
            ELSE IF verb = <<"subscribe">>
                 THEN QhResult(subscribe(w, sd, chan, fmt, serial, refused), 0,
                               "subscribe", chan)
                 ELSE QhResult(unsubscribe(w, sd, chan), 0, "unsubscribe", chan)

nerd_qh_handler(w, sd, request, serial, refused) ==
    IF request = <<>> \/ request = <<"help">>
    THEN QhResult([w EXCEPT !.out = UsageText], 0, "help", 0 - 1)
    ELSE IF request = <<"list">>
    THEN QhResult([list_from(w, 0) EXCEPT !.out = Append(@, "NUL")], 0, "list", 0 - 1)
    ELSE qh_command(w, sd, request, serial, refused)

\* the request lines the clients send
Requests ==
    {<<>>, <<"help">>, <<"list">>,
     <<"subscribe", " ", "hostchecks">>,
     <<"subscribe", " ", "servicechecks">>,
     <<"subscribe", " ", "custom", ":", "a", ":", "b">>,
     <<"unsubscribe", " ", "hostchecks", ":", "fmt">>,
     <<"unsubscribe", " ", "servicechecks">>,
     <<"unsubscribe", " ", "custom">>,
     <<"list", " ">>, <<" ", "hostchecks">>,
     <<"subscribe">>, <<"unsubscribe", ":", "hostchecks">>,
     <<"bogus", " ", "hostchecks">>,
     <<"subscribe", " ", ":", "fmt">>,
     <<"subscribe", " ", "hostchecks", " ", "custom">>,
     <<"subscribe", " ", "nochan">>,
     <<"unsubscribe", " ", "nochan", ":", "fmt">>}

----------------------------------------------------------------------------
(* History record *)

Last(op, sd, chan, retval, w) ==
    [op |-> op, sd |-> sd, chan |-> chan, retval |-> retval,
     calls |-> w.calls, closes |-> w.closes, writes |-> w.writes,
     out |-> w.out, log |-> w.log]

NoCalls ==
    [calls |-> <<>>, closes |-> <<>>, writes |-> <<>>, out |-> <<>>, log |-> <<>>]

----------------------------------------------------------------------------
(* Specification *)

Init ==
    /\ channels = <<>>
    /\ num_channels = 0
    /\ chan_host_checks_id = 0
    /\ chan_service_checks_id = 0
    /\ neb_callbacks = [p \in CallbackKinds \X Handlers |-> 0]
    /\ phase = "start"
    /\ neb_refused = {}
    /\ nextSerial = 1
    /\ last = Last("none", NoSd, 0 - 1, 0, NoCalls)

\* nerd_init: the two built-in channels
NerdInit ==
    /\ phase = "start"
    /\ LET h == nerd_mkchan(channels, num_channels, HostChecksDef)
           s == nerd_mkchan(h.channels, h.num_channels, ServiceChecksDef)
       IN  /\ channels' = s.channels
           /\ num_channels' = s.num_channels
           /\ chan_host_checks_id' = h.retval
           /\ chan_service_checks_id' = s.retval
           /\ last' = Last("nerd_init", NoSd, s.retval, 0, NoCalls)
    /\ phase' = "running"
    /\ UNCHANGED <<neb_callbacks, neb_refused, nextSerial>>

\* a module adds a channel; names are unique across the registry
NerdMkchan ==
    /\ phase = "running"
    /\ \E def \in ModuleDefs :
         /\ find_channel(channels, num_channels, def.name) = 0 - 1
         /\ LET m == nerd_mkchan(channels, num_channels, def)
            IN  /\ channels' = m.channels
                /\ num_channels' = m.num_channels
                /\ last' = Last("nerd_mkchan", NoSd, m.retval, m.retval, NoCalls)
    /\ UNCHANGED <<chan_host_checks_id, chan_service_checks_id, neb_callbacks,
                   phase, neb_refused, nextSerial>>

\* a request line arrives from a client
NerdQhHandler ==
    /\ phase = "running"
    /\ \E sd \in Connections, request \in Requests :
         \E r \in {nerd_qh_handler(World, sd, request, nextSerial, neb_refused)} :
             /\ r.did = "subscribe" => nextSerial <= MaxSerial
             /\ channels' = r.w.channels
             /\ neb_callbacks' = r.w.cbs
             /\ nextSerial' = IF r.did = "subscribe" THEN nextSerial + 1 ELSE nextSerial
             /\ last' = Last(r.did, sd, r.chan, r.retval, r.w)
    /\ UNCHANGED <<num_channels, chan_host_checks_id, chan_service_checks_id,
                   phase, neb_refused>>

\* a producer hands a payload to the dispatcher
NerdBroadcast ==
    /\ phase = "running"
    /\ \E chan_id \in 0..num_channels :
         \E results \in SendOutcomes(chan_id) :
           \E r \in {nerd_broadcast(World, chan_id, results)} :
               /\ channels' = r.w.channels
               /\ neb_callbacks' = r.w.cbs
               /\ last' = Last("nerd_broadcast", NoSd, chan_id, r.retval, r.w)
    /\ UNCHANGED <<num_channels, chan_host_checks_id, chan_service_checks_id,
                   phase, neb_refused, nextSerial>>

\* the broker delivers a host check event to the registered handler
ChanHostChecks ==
    /\ phase = "running"
    /\ neb_callbacks[<<"HOST_CHECK_DATA", "chan_host_checks">>] > 0
    /\ \E processed \in BOOLEAN :
         \E results \in SendOutcomes(chan_host_checks_id) :
           \E w \in {chan_host_checks(World, processed, results)} :
               /\ channels' = w.channels
               /\ neb_callbacks' = w.cbs
               /\ last' = Last("chan_host_checks", NoSd, chan_host_checks_id, 0, w)
    /\ UNCHANGED <<num_channels, chan_host_checks_id, chan_service_checks_id,
                   phase, neb_refused, nextSerial>>

\* the broker delivers a service check event to the registered handler
ChanServiceChecks ==
    /\ phase = "running"
    /\ neb_callbacks[<<"SERVICE_CHECK_DATA", "chan_service_checks">>] > 0
    /\ \E processed \in BOOLEAN :
         \E results \in SendOutcomes(chan_service_checks_id) :
           \E w \in {chan_service_checks(World, processed, results)} :
               /\ channels' = w.channels
               /\ neb_callbacks' = w.cbs
               /\ last' = Last("chan_service_checks", NoSd, chan_service_checks_id, 0, w)
    /\ UNCHANGED <<num_channels, chan_host_checks_id, chan_service_checks_id,
                   phase, neb_refused, nextSerial>>

\* a client went away, or a caller cancels it
NerdCancelSubscriber ==
    /\ phase = "running"
    /\ \E sd \in Connections :
         \E w \in {nerd_cancel_subscriber(World, sd)} :
             /\ channels' = w.channels
             /\ neb_callbacks' = w.cbs
             /\ last' = Last("nerd_cancel_subscriber", sd, 0 - 1, 0, w)
    /\ UNCHANGED <<num_channels, chan_host_checks_id, chan_service_checks_id,
                   phase, neb_refused, nextSerial>>

\* the module is unloaded at shutdown
NerdDeinit ==
    /\ phase = "running"
    /\ LET w == nerd_deinit(World)
       IN  /\ channels' = w.channels
           /\ num_channels' = w.num_channels
           /\ last' = Last("nerd_deinit", NoSd, 0 - 1, 0, w)
    /\ phase' = "down"
    /\ UNCHANGED <<chan_host_checks_id, chan_service_checks_id, neb_callbacks,
                   neb_refused, nextSerial>>

Next ==
    \/ NerdInit
    \/ NerdMkchan
    \/ NerdQhHandler
    \/ NerdBroadcast
    \/ ChanHostChecks
    \/ ChanServiceChecks
    \/ NerdCancelSubscriber
    \/ NerdDeinit

Spec == Init /\ [][Next]_vars

\* the same program with a broker that refuses some callback kinds
InitRefusing ==
    /\ channels = <<>>
    /\ num_channels = 0
    /\ chan_host_checks_id = 0
    /\ chan_service_checks_id = 0
    /\ neb_callbacks = [p \in CallbackKinds \X Handlers |-> 0]
    /\ phase = "start"
    /\ neb_refused \in {{"HOST_CHECK_DATA"}, {"COMMENT_DATA"}}
    /\ nextSerial = 1
    /\ last = Last("none", NoSd, 0 - 1, 0, NoCalls)

SpecRefusing == InitRefusing /\ [][Next]_vars

----------------------------------------------------------------------------
(* Properties *)

ChannelIds == 0..(num_channels - 1)

Subscribers(ci) == channels[ci + 1].subscriptions

\* the calls of one kind the last operation issued for channel ci
CallsFor(ls, call, ci) ==
    SelectSeq(ls.calls, LAMBDA c : c.call = call /\ c.chan = ci)

\* one registration round of channel ci with a broker that accepts
RegistrationRound(ci) ==
    [j \in 1..Len(channels[ci + 1].callbacks) |->
        RegisterCall(ci, channels[ci + 1].callbacks[j], channels[ci + 1].handler, 0)]

DeregistrationRound(ci) ==
    [j \in 1..Len(channels[ci + 1].callbacks) |->
        DeregisterCall(ci, channels[ci + 1].callbacks[j], channels[ci + 1].handler)]

\* C1: while the dispatcher runs with a broker that accepts every
\* registration, each callback a channel declares is registered with the
\* broker if and only if the channel's subscriber list is non-empty.
C1_CallbacksIffSubscribers ==
    (phase = "running" /\ neb_refused = {}) =>
        \A ci \in ChannelIds :
            \A j \in 1..Len(channels[ci + 1].callbacks) :
                (neb_callbacks[<<channels[ci + 1].callbacks[j],
                                 channels[ci + 1].handler>>] > 0)
                    <=> (Subscribers(ci) # <<>>)

\* C1 witness: an unsubscribe has emptied one channel while another channel
\* still has subscribers.
C1_Witness ==
    /\ last.op = "unsubscribe"
    /\ Subscribers(last.chan) = <<>>
    /\ \E ci \in ChannelIds : Subscribers(ci) # <<>>

\* C2 as claimed: an unsubscribe or a cancel-subscriber issues one
\* deregistration round for a channel whose list it turns from non-empty to
\* empty, and no deregistration call for any other channel, in particular
\* none for a channel whose list was already empty.
C2_DeregisterOncePerTransition ==
    [][last'.op \in {"unsubscribe", "nerd_cancel_subscriber"} =>
         \A ci \in ChannelIds :
            CallsFor(last', "deregister", ci) =
                IF Subscribers(ci) # <<>> /\ channels'[ci + 1].subscriptions = <<>>
                THEN DeregistrationRound(ci)
                ELSE <<>>]_vars

\* C3: a subscribe on a channel whose list is empty issues one registration
\* call per callback the channel declares, in their order, and a subscribe
\* on a channel that has a subscriber issues none; no other operation
\* registers a callback.
C3_RegisterOncePerTransition ==
    [][\A ci \in ChannelIds :
          CallsFor(last', "register", ci) =
              IF last'.op = "subscribe" /\ last'.chan = ci /\ Subscribers(ci) = <<>>
              THEN RegistrationRound(ci)
              ELSE <<>>]_vars

\* C3 witness: a second subscriber has joined a channel that declares two
\* callbacks, and the subscribe issued no call to the broker.
C3_Witness ==
    /\ last.op = "subscribe"
    /\ Len(channels[last.chan + 1].callbacks) = 2
    /\ Len(Subscribers(last.chan)) = 2
    /\ last.calls = <<>>

\* the operations that run the broadcast loop
BroadcastOps == {"nerd_broadcast", "chan_host_checks", "chan_service_checks"}

\* the writes are the first nodes of the list, in the list's order
WritesArePrefix(ws, list) ==
    /\ Len(ws) <= Len(list)
    /\ \A i \in 1..Len(ws) : ws[i].sd = list[i].sd /\ ws[i].serial = list[i].serial

\* C4: in a broadcast on channel c, for two subscriptions of c's list of
\* which A was made before B, a write to A is attempted only after a write
\* to B was attempted.
C4_MostRecentFirst ==
    [][(last'.op \in BroadcastOps /\ last'.chan \in ChannelIds) =>
         LET list == Subscribers(last'.chan)
             ws   == last'.writes
         IN  \A a, b \in 1..Len(list) :
                list[a].serial < list[b].serial =>
                    \A j \in 1..Len(ws) :
                        ws[j].serial = list[a].serial =>
                            \E i \in 1..(j - 1) : ws[i].serial = list[b].serial]_vars

\* C4 witness: a broadcast has written to two subscriptions of different
\* connections.
C4_Witness ==
    /\ last.op = "nerd_broadcast"
    /\ Len(last.writes) >= 2
    /\ last.writes[1].sd # last.writes[2].sd
    /\ last.writes[1].serial > last.writes[2].serial

\* C5: a broadcast in which a write reports would-block ends with that
\* write and returns 0: the writes are the list's nodes up to that one, no
\* subscription leaves any channel, no callback registration changes and no
\* close is requested.
C5_WouldBlockStops ==
    [][(last'.op \in BroadcastOps
            /\ \E i \in 1..Len(last'.writes) : last'.writes[i].result = "EAGAIN") =>
         /\ last'.retval = 0
         /\ last'.writes[Len(last'.writes)].result = "EAGAIN"
         /\ \A i \in 1..(Len(last'.writes) - 1) : last'.writes[i].result = "ok"
         /\ WritesArePrefix(last'.writes, Subscribers(last'.chan))
         /\ channels' = channels
         /\ neb_callbacks' = neb_callbacks
         /\ last'.closes = <<>>
         /\ last'.calls = <<>>]_vars

\* C5 witness: a broadcast ended on a would-block write while the list held
\* subscribers after the blocked one.
C5_Witness ==
    /\ last.op = "nerd_broadcast"
    /\ last.writes # <<>>
    /\ last.writes[Len(last.writes)].result = "EAGAIN"
    /\ Len(Subscribers(last.chan)) > Len(last.writes)
    /\ last.retval = 0

\* C6: a broadcast in which a write fails with an error other than
\* would-block ends with that write: the writes are the list's nodes up to
\* that one, the failing connection is in no channel's list afterwards, one
\* close is requested, for that connection, and nerd_broadcast returns 500,
\* which is neither 0 nor -1.
C6_WriteErrorCancels ==
    [][(last'.op \in BroadcastOps
            /\ \E i \in 1..Len(last'.writes) :
                  last'.writes[i].result \notin {"ok", "EAGAIN"}) =>
         LET n  == Len(last'.writes)
             sd == last'.writes[n].sd
         IN  /\ last'.writes[n].result \notin {"ok", "EAGAIN"}
             /\ \A i \in 1..(n - 1) : last'.writes[i].result = "ok"
             /\ WritesArePrefix(last'.writes, Subscribers(last'.chan))
             /\ \A ci \in ChannelIds :
                   \A k \in 1..Len(channels'[ci + 1].subscriptions) :
                       channels'[ci + 1].subscriptions[k].sd # sd
             /\ last'.closes = <<CloseCall(sd, "nerd_cancel_subscriber")>>
             /\ last'.op = "nerd_broadcast" =>
                   (last'.retval = 500 /\ last'.retval \notin {0, 0 - 1})]_vars

\* C6 witness: a broadcast failed on a write and left a subscriber it had
\* not yet written to in the channel's list.
C6_Witness ==
    /\ last.op = "nerd_broadcast"
    /\ last.retval = 500
    /\ last.closes # <<>>
    /\ \E k \in 1..Len(Subscribers(last.chan)) :
          Subscribers(last.chan)[k].serial < last.writes[Len(last.writes)].serial

\* the subscriptions of connection sd in a list, in the list's order
OfConnection(list, sd) == SelectSeq(list, LAMBDA e : e.sd = sd)

\* C7: when nerd_cancel_subscriber runs for connection A, directly or from
\* a failed write, no channel's list holds a subscription of A afterwards
\* and, in every channel, the subscriptions of every other connection are
\* the same, in the same order.
C7_CancelRemovesOnlyA ==
    [][(\E k \in 1..Len(last'.closes) : last'.closes[k].via = "nerd_cancel_subscriber") =>
         LET A == last'.closes[1].sd
         IN  \A ci \in ChannelIds :
                /\ OfConnection(channels'[ci + 1].subscriptions, A) = <<>>
                /\ \A B \in Connections \ {A} :
                      OfConnection(channels'[ci + 1].subscriptions, B)
                          = OfConnection(Subscribers(ci), B)]_vars

\* C7 witness: a cancel has removed subscriptions of its connection and a
\* channel still holds two subscriptions of the other connection.
C7_Witness ==
    /\ last.op = "nerd_cancel_subscriber"
    /\ last.log # <<>>
    /\ \E ci \in ChannelIds, B \in Connections \ {last.sd} :
          Len(OfConnection(Subscribers(ci), B)) >= 2

\* the parts of a request line, read off the line as the protocol states them
HasBlank(r) == \E i \in 1..Len(r) : r[i] = " "

FirstBlank(r) ==
    CHOOSE i \in 1..Len(r) : r[i] = " " /\ \A j \in 1..(i - 1) : r[j] # " "

VerbOf(r) == [i \in 1..(FirstBlank(r) - 1) |-> r[i]]

RestOf(r) == [i \in 1..(Len(r) - FirstBlank(r)) |-> r[FirstBlank(r) + i]]

\* the channel name: the rest up to its first colon
NameOf(r) ==
    LET rest == RestOf(r)
        n == CHOOSE m \in 0..Len(rest) :
                 /\ \A j \in 1..m : rest[j] # ":"
                 /\ m = Len(rest) \/ rest[m + 1] = ":"
    IN  [i \in 1..n |-> rest[i]]

Malformed(r) ==
    \/ ~HasBlank(r) /\ r \notin {<<>>, <<"help">>, <<"list">>}
    \/ HasBlank(r) /\ VerbOf(r) \notin {<<"subscribe">>, <<"unsubscribe">>}
    \/ HasBlank(r) /\ \A ci \in ChannelIds : channels[ci + 1].name # NameOf(r)

\* C8: in every state of the running dispatcher, the query handler answers
\* every malformed request of every connection with 400 and leaves the
\* channels, their subscriber lists and the broker as they are, issuing no
\* broker call, no close, no write and no output.
C8_MalformedNoEffect ==
    phase = "running" =>
        \A sd \in Connections, r \in Requests :
            Malformed(r) =>
                /\ nerd_qh_handler(World, sd, r, nextSerial, neb_refused).retval = 400
                /\ nerd_qh_handler(World, sd, r, nextSerial, neb_refused).w = World

\* C8 witness: a malformed request was answered with 400 while a channel
\* had subscribers.
C8_Witness ==
    /\ last.op = "malformed"
    /\ last.retval = 400
    /\ \E ci \in ChannelIds : Subscribers(ci) # <<>>

\* C9 as claimed: the id nerd_mkchan returns is the channel's index, the id
\* nerd_get_channel_id reports for the channel's name is that index,
\* nerd_get_channel on that id is that channel, and channels of different
\* names report different ids.
C9_ChannelIdsConsistent ==
    phase = "running" =>
        /\ last.op = "nerd_mkchan" => last.retval = num_channels - 1
        /\ channels[chan_host_checks_id + 1].name = <<"hostchecks">>
        /\ channels[chan_service_checks_id + 1].name = <<"servicechecks">>
        /\ \A ci \in ChannelIds :
              /\ nerd_get_channel_id(channels, num_channels, channels[ci + 1].name) = ci
              /\ nerd_get_channel(num_channels,
                     nerd_get_channel_id(channels, num_channels,
                                         channels[ci + 1].name)) = ci
        /\ \A ci, di \in ChannelIds :
              channels[ci + 1].name # channels[di + 1].name =>
                  nerd_get_channel_id(channels, num_channels, channels[ci + 1].name)
                      # nerd_get_channel_id(channels, num_channels, channels[di + 1].name)

\* C10 as claimed: every close the dispatcher requests is requested by
\* nerd_cancel_subscriber.
C10_CloseOnlyViaCanceller ==
    \A k \in 1..Len(last.closes) : last.closes[k].via = "nerd_cancel_subscriber"

\* C10 amended: a close is requested only by nerd_cancel_subscriber, called
\* directly or by a broadcast for a write that failed with an error other
\* than would-block, and by nerd_deinit, which closes the socket of every
\* remaining subscription itself; no other operation requests a close.
C10_CloseOnlyViaCancellerOrDeinit ==
    /\ \A k \in 1..Len(last.closes) :
          last.closes[k].via \in {"nerd_cancel_subscriber", "nerd_deinit"}
    /\ last.closes # <<>> =>
          last.op \in {"nerd_cancel_subscriber", "nerd_deinit"} \cup BroadcastOps
    /\ last.op \in BroadcastOps /\ last.closes # <<>> =>
          /\ last.writes # <<>>
          /\ last.writes[Len(last.writes)].result \notin {"ok", "EAGAIN"}
          /\ last.closes = <<CloseCall(last.writes[Len(last.writes)].sd,
                                       "nerd_cancel_subscriber")>>
    /\ last.op = "nerd_cancel_subscriber" =>
          last.closes = <<CloseCall(last.sd, "nerd_cancel_subscriber")>>
    /\ last.op = "nerd_deinit" =>
          \A k \in 1..Len(last.closes) : last.closes[k].via = "nerd_deinit"

\* C10 witness: teardown has requested the close of a subscriber's socket.
C10_Witness ==
    /\ last.op = "nerd_deinit"
    /\ last.closes # <<>>

\* C11 as claimed: when a subscribe on a channel without subscribers meets a
\* broker that refuses one of the channel's callbacks, a registration is
\* still attempted for every callback the channel declares, and the
\* subscription that started the round is added to the channel's list.
C11_RegistrationBestEffort ==
    (last.op = "subscribe" /\ last.calls # <<>>) =>
        /\ \A j \in 1..Len(channels[last.chan + 1].callbacks) :
              \E k \in 1..Len(last.calls) :
                 /\ last.calls[k].call = "register"
                 /\ last.calls[k].chan = last.chan
                 /\ last.calls[k].kind = channels[last.chan + 1].callbacks[j]
        /\ Subscribers(last.chan) # <<>>
        /\ Head(Subscribers(last.chan)).sd = last.sd
        /\ Head(Subscribers(last.chan)).serial = nextSerial - 1

\* the listing: a line of name and description per channel, in registry
\* order, and the zero byte that ends it
ListOutput ==
    [i \in 1..num_channels |-> <<channels[i].name, channels[i].description>>]
        \o <<"NUL">>

\* C12: in every state of the running dispatcher, the request "list" of any
\* connection returns 0 and emits one line per registered channel, with the
\* channel's name and description and in registry order, followed by one
\* zero byte; the output is the same whatever the subscriber lists hold,
\* and the request changes no channel, no subscriber list and no callback
\* registration and issues no broker call, close or write.
C12_ListOutput ==
    phase = "running" =>
        \A sd \in Connections :
            /\ nerd_qh_handler(World, sd, <<"list">>, nextSerial, neb_refused).retval = 0
            /\ nerd_qh_handler(World, sd, <<"list">>, nextSerial, neb_refused).w
                   = [World EXCEPT !.out = ListOutput]

\* C12 witness: a list request was answered with three lines and the zero
\* byte while one channel had two subscriptions and another had none.
C12_Witness ==
    /\ last.op = "list"
    /\ last.retval = 0
    /\ num_channels = 3
    /\ last.out = ListOutput
    /\ \E ci \in ChannelIds : Len(Subscribers(ci)) = 2
    /\ \E ci \in ChannelIds : Subscribers(ci) = <<>>

\* the list without the subscriptions of connection sd
WithoutConnection(list, sd) == SelectSeq(list, LAMBDA e : e.sd # sd)

\* C13: in every state of the running dispatcher, for every channel and
\* every connection, unsubscribe leaves the channel's list as the list
\* without the entries of that connection, the other entries in their
\* order, and cancel_channel_subscription leaves the same list; this holds
\* where the connection has several entries and where its entries are at
\* the head, next to each other or at the tail.
C13_RemovalIsFilter ==
    phase = "running" =>
        \A ci \in ChannelIds, sd \in Connections :
            /\ unsubscribe(World, sd, ci).channels[ci + 1].subscriptions
                   = WithoutConnection(Subscribers(ci), sd)
            /\ cancel_channel_subscription(World, ci, sd).channels[ci + 1].subscriptions
                   = WithoutConnection(Subscribers(ci), sd)

\* C13 witness: an unsubscribe has run on a channel after three
\* subscriptions were made and has left there the second of them alone, a
\* subscription of another connection, every other list being empty: the
\* connection's entries before and after it in the list are gone.
C13_Witness ==
    /\ last.op = "unsubscribe"
    /\ nextSerial > 3
    /\ Len(Subscribers(last.chan)) = 1
    /\ Subscribers(last.chan)[1].serial = 2
    /\ Subscribers(last.chan)[1].sd # last.sd
    /\ \A ci \in ChannelIds \ {last.chan} : Subscribers(ci) = <<>>

\* C14: a broadcast on a channel in which no write fails has attempted one
\* write per entry of the channel's list, in the list's order, so that a
\* connection with k subscriptions on the channel is written to k times; it
\* returns 0, leaves every subscriber list and every callback registration
\* as they were and issues no broker call and no close.  A producer's
\* handler that wrote nothing did not broadcast: the event was not of the
\* processed type.
C14_AllOkWritesEveryEntry ==
    [][(/\ last'.op \in BroadcastOps
        /\ last'.chan \in ChannelIds
        /\ last'.op # "nerd_broadcast" => last'.writes # <<>>
        /\ \A i \in 1..Len(last'.writes) : last'.writes[i].result = "ok") =>
         /\ Len(last'.writes) = Len(Subscribers(last'.chan))
         /\ WritesArePrefix(last'.writes, Subscribers(last'.chan))
         /\ \A sd \in Connections :
               Len(SelectSeq(last'.writes, LAMBDA x : x.sd = sd))
                   = Len(OfConnection(Subscribers(last'.chan), sd))
         /\ last'.retval = 0
         /\ channels' = channels
         /\ neb_callbacks' = neb_callbacks
         /\ last'.calls = <<>>
         /\ last'.closes = <<>>]_vars

\* C14 witness: a broadcast in which every write succeeded wrote twice to
\* a connection that has two subscriptions on the channel, and once to
\* another subscriber.
C14_Witness ==
    /\ last.op = "nerd_broadcast"
    /\ last.retval = 0
    /\ Len(last.writes) = 3
    /\ \A i \in 1..Len(last.writes) : last.writes[i].result = "ok"
    /\ \E sd \in Connections :
          Len(SelectSeq(last.writes, LAMBDA x : x.sd = sd)) = 2

\* a request of the form verb, blank, channel or channel:format, whose verb
\* is subscribe or unsubscribe and whose channel is registered
WellFormed(r) == HasBlank(r) /\ ~Malformed(r)

\* the format of a request: what follows the first colon of the rest, NULL
\* when the rest has no colon
FormatOf(r) ==
    LET rest == RestOf(r)
        n    == Len(NameOf(r))
    IN  IF n = Len(rest) THEN NULLSTR
        ELSE [i \in 1..(Len(rest) - n - 1) |-> rest[n + 1 + i]]

\* the channel a request names
ChannelOf(r) == CHOOSE ci \in ChannelIds : channels[ci + 1].name = NameOf(r)

\* C15: in every state of the running dispatcher, a well-formed request
\* "subscribe <channel>" or "subscribe <channel>:<format>" of a connection
\* returns 0 and puts one new subscription of that connection at the head of
\* the named channel's list, the rest of the list and every other list as
\* before; the channel is looked up by the text before the first colon, and
\* the text after that colon is the subscription's format (no format when
\* there is no colon).  A well-formed "unsubscribe <channel>", with or
\* without ":<format>", returns 0 whether or not the connection has a
\* subscription on the channel.
C15_SubscribeUnsubscribeRequests ==
    phase = "running" =>
        \A sd \in Connections, r \in Requests :
            WellFormed(r) =>
                LET res == nerd_qh_handler(World, sd, r, nextSerial, neb_refused)
                    c   == ChannelOf(r)
                IN  /\ res.retval = 0
                    /\ res.chan = c
                    /\ VerbOf(r) = <<"subscribe">> =>
                          /\ res.w.channels[c + 1].subscriptions
                                = <<[sd |-> sd, format |-> FormatOf(r),
                                     serial |-> nextSerial]>> \o Subscribers(c)
                          /\ \A d \in ChannelIds \ {c} :
                                res.w.channels[d + 1].subscriptions = Subscribers(d)
                    /\ VerbOf(r) = <<"unsubscribe">> =>
                          /\ res.did = "unsubscribe"
                          /\ OfConnection(res.w.channels[c + 1].subscriptions, sd) = <<>>

\* C15 witness: a subscribe request with a format that holds a colon has
\* put its subscription, with the text after the first colon as format, at
\* the head of a list that held a subscription already.
C15_Witness ==
    /\ last.op = "subscribe"
    /\ last.retval = 0
    /\ Len(Subscribers(last.chan)) >= 2
    /\ Head(Subscribers(last.chan)).sd = last.sd
    /\ Head(Subscribers(last.chan)).format = <<"a", ":", "b">>
    /\ Head(Subscribers(last.chan)).serial = nextSerial - 1

\* the send() results of a broadcast that meets no failure
AllOk == [i \in 1..(MaxSerial + 1) |-> "ok"]

\* C16: in every state of the running dispatcher, nerd_broadcast with a
\* channel id that is the number of registered channels or greater returns
\* -1 and has no effect: no write, no close, no broker call, and every
\* channel, subscriber list and callback registration as before.
C16_InvalidIdNoEffect ==
    phase = "running" =>
        \A chan_id \in num_channels..(num_channels + 2) :
            /\ nerd_broadcast(World, chan_id, AllOk).retval = 0 - 1
            /\ nerd_broadcast(World, chan_id, AllOk).w = World

\* C16 witness: a broadcast with the number of channels as id returned -1
\* while every channel had a subscriber.
C16_Witness ==
    /\ last.op = "nerd_broadcast"
    /\ last.chan >= num_channels
    /\ last.retval = 0 - 1
    /\ last.writes = <<>>
    /\ \A ci \in ChannelIds : Subscribers(ci) # <<>>

\* C17: when nerd_deinit has run, from whatever state of the running
\* dispatcher, the registry holds no channel and so no subscription, and a
\* close was requested for every connection that had a subscription on some
\* channel before.
C17_TeardownCompletes ==
    [][last'.op = "nerd_deinit" =>
         /\ num_channels' = 0
         /\ channels' = <<>>
         /\ phase' = "down"
         /\ \A ci \in ChannelIds :
               \A k \in 1..Len(Subscribers(ci)) :
                   \E j \in 1..Len(last'.closes) :
                       last'.closes[j].sd = Subscribers(ci)[k].sd]_vars

\* C17 witness: teardown has run where two connections had subscriptions,
\* and requested the close of both.
C17_Witness ==
    /\ last.op = "nerd_deinit"
    /\ num_channels = 0
    /\ \A sd \in Connections :
          \E j \in 1..Len(last.closes) : last.closes[j].sd = sd

\* connection sd has no subscription in any list of chs
Unsubscribed(chs, sd) ==
    \A i \in 1..Len(chs) : OfConnection(chs[i].subscriptions, sd) = <<>>

\* C18: when a step requests the close of a connection through
\* nerd_cancel_subscriber, called directly or for a failed write, no
\* channel's list holds a subscription of that connection after the step;
\* and a connection without a subscription is written to by no broadcast
\* and stays without one in every step but a subscribe of its own.
C18_NoWriteAfterClose ==
    [][\A sd \in Connections :
          /\ (\E k \in 1..Len(last'.closes) :
                 /\ last'.closes[k].sd = sd
                 /\ last'.closes[k].via = "nerd_cancel_subscriber")
                => Unsubscribed(channels', sd)
          /\ Unsubscribed(channels, sd) =>
                /\ \A j \in 1..Len(last'.writes) : last'.writes[j].sd # sd
                /\ Unsubscribed(channels', sd)
                       \/ (last'.op = "subscribe" /\ last'.sd = sd)]_vars

\* C18 witness: a broadcast met a failed write and cancelled a connection
\* that had subscriptions on two channels; the connection is in no list and
\* another subscriber remains.
C18_Witness ==
    /\ last.op \in BroadcastOps
    /\ last.closes # <<>>
    /\ Len(last.log) = 2
    /\ Unsubscribed(channels, last.closes[1].sd)
    /\ \E ci \in ChannelIds : Subscribers(ci) # <<>>

\* the broker's entries for the callbacks channel d declares
RegistrationOf(cbs, d) ==
    [j \in 1..Len(channels[d + 1].callbacks) |->
        cbs[<<channels[d + 1].callbacks[j], channels[d + 1].handler>>]]

\* C19: a subscribe or unsubscribe request on channel c leaves the
\* subscriber list and the callback registrations of every other channel d
\* as they were and issues no registration or deregistration call for d.
C19_ChannelLocal ==
    [][last'.op \in {"subscribe", "unsubscribe"} =>
         \A d \in ChannelIds \ {last'.chan} :
            /\ channels'[d + 1] = channels[d + 1]
            /\ RegistrationOf(neb_callbacks', d) = RegistrationOf(neb_callbacks, d)
            /\ \A k \in 1..Len(last'.calls) : last'.calls[k].chan # d]_vars

\* C19 witness: a subscribe has registered the callbacks of its channel
\* while the two other channels had subscribers.
C19_Witness ==
    /\ last.op = "subscribe"
    /\ last.calls # <<>>
    /\ num_channels = 3
    /\ \A d \in ChannelIds : Subscribers(d) # <<>>

\* C20 as claimed: nerd_deinit requests the close of each connection at
\* most once, also for a connection that has subscriptions on several
\* channels or several subscriptions on one channel.
C20_TeardownClosesOnce ==
    last.op = "nerd_deinit" =>
        \A j, k \in 1..Len(last.closes) :
            last.closes[j].sd = last.closes[k].sd => j = k

=============================================================================
